---- MODULE Spec2Model ----
(***************************************************************************)
(* Browser-session abstraction and transport selection of the LinkedIn MCP *)
(* server: the Session Interface implementations (ChromeSession,           *)
(* BridgeSessionImpl), the Bridge Session and its cookie authentication,   *)
(* the Bridge Adapter registry and the Session Manager's get_session /     *)
(* close_session policy.                                                   *)
(*                                                                         *)
(* A manager operation is a sequence of steps, one per external            *)
(* interaction (HTTP request to the bridge endpoint, driver call); pc is   *)
(* the position of the single caller inside the operation in progress.     *)
(***************************************************************************)
EXTENDS Integers, Sequences, FiniteSets, TLC

\* Number of session objects (bridge or direct) the model lets be created.
MaxSessions == 3

SessionIds == 1..MaxSessions

\* Sessions created, and remote close requests sent for one session id, when
\* the adapter and its Bridge Sessions are used directly.
MaxAdapterSessions == 2

\* Connections one BridgeClient opens when it is used directly.
MaxConnections == 3
MaxCloseReqs == 3

\* "li_at=" as a sequence of characters (adapter.py:43).
CookiePrefix == <<"l", "i", "_", "a", "t", "=">>

\* Authentication tokens handed to get_session: empty, bare value, prefixed.
Tokens == { <<>>, <<"A">>, CookiePrefix \o <<"A">> }

\* Token pieces, and the tokens the cookie construction is exercised on:
\* "li_at=" at the start, in the middle, at the end, twice, cut short, absent.
TokenParts == { <<>>, CookiePrefix, <<"A">>, <<"l", "i", "_">> }
CookieTokens == { p \o q \o r : p \in TokenParts, q \in TokenParts, r \in TokenParts }

\* URLs the browser can report after the feed navigation, as path segments.
URLs == { <<"feed">>, <<"login">>, <<"uas", "login">>, <<"checkpoint">> }

\* Outcomes of one HTTP exchange with the bridge endpoint (aiohttp).
ReqOutcomes == {"ok", "ClientError", "JSONDecodeError", "TimeoutError"}

\* Outcomes of one call on the selenium driver.
DriverOutcomes == {"ok", "WebDriverException"}

\* The Session Interface operations guarded by the closed flag.
Ops == {"navigate", "execute_script", "get_cookies", "set_cookies",
        "get_page_source", "get_current_url"}

VARIABLES
    config,     \* [enabled, fallback]: config.bridge.enabled / fallback_to_selenium
    mgr,        \* SessionManager fields: adapter, cur (_current_session), curBS (_current_browser_session);
                \* global: the module-level _session_manager refers to the manager
    registry,   \* ChromeBridgeAdapter._active_sessions (set of session ids)
    sess,       \* the session objects created so far, by id
    nsess,      \* number of session objects created so far
    pc,         \* position of the caller inside the manager operation
    call,       \* the manager operation in progress, or the last one completed
    last,       \* the last Session Interface operation since the manager operation, and its outcome
    client      \* the BridgeClient of the adapter (or the one used directly)

vars == <<config, mgr, registry, sess, nsess, pc, call, last, client>>

----------------------------------------------------------------------------
\* Session objects

NoSession == [kind |-> "none", hasImpl |-> FALSE, closed |-> FALSE,
              closeReqs |-> 0, bsClosed |-> FALSE, authenticated |-> FALSE,
              token |-> <<>>, cookie |-> <<>>]

\* BridgeSession.__init__: no browser session yet, not authenticated.
BridgeSession_init == [NoSession EXCEPT !.kind = "bridge"]

\* ChromeSession.__init__ over a driver built for the token.
ChromeSession_init(token) ==
    [NoSession EXCEPT !.kind = "chrome", !.hasImpl = TRUE, !.token = token]

\* BridgeSession.get_browser_session: create the BridgeSessionImpl lazily.
get_browser_session(sr) ==
    IF ~sr.hasImpl THEN [sr EXCEPT !.hasImpl = TRUE, !.closed = FALSE] ELSE sr

----------------------------------------------------------------------------
\* Transport client

\* BridgeClient._request: what the caller of _request sees for an outcome.
BridgeClient_request(o) ==
    IF o = "ok" THEN "ok"
    ELSE IF o \in {"ClientError", "JSONDecodeError"} THEN "BridgeConnectionError"
    ELSE o

\* BridgeClient.health_check: "True", "False" or the exception that escapes.
BridgeClient_health_check(o) ==
    LET r == BridgeClient_request(o) IN
    IF r = "ok" THEN "True"
    ELSE IF r = "BridgeConnectionError" THEN "False"
    ELSE r

\* create_session without the check of line 91.
BridgeClient_create_session_unchecked(o, hasId) ==
    LET r == BridgeClient_request(o) IN
    IF r = "ok" THEN "ok"
    ELSE IF r = "BridgeConnectionError" THEN r
    ELSE "BridgeSessionError"

\* BridgeClient.create_session: "ok" or the exception raised.
BridgeClient_create_session(o, hasId) ==
    LET r == BridgeClient_request(o) IN
    IF r = "ok" THEN (IF hasId THEN "ok" ELSE "BridgeSessionError")
    ELSE IF r = "BridgeConnectionError" THEN r
    ELSE "BridgeSessionError"

\* BridgeClient.navigate / execute_script / get_cookies / set_cookies /
\* get_page_source / get_current_url / close_session: "ok" or the exception.
BridgeClient_op(o) ==
    LET r == BridgeClient_request(o) IN
    IF r = "ok" THEN "ok"
    ELSE IF r = "BridgeConnectionError" THEN r
    ELSE "BridgeSessionError"

\* BridgeClient fields: session is _session (None, an open ClientSession or a
\* closed one); opened counts the ClientSession objects created; openConns
\* counts those of them that are open.
NoClient == [session |-> "None", opened |-> 0, openConns |-> 0]

\* _get_session testing only `is None`: a closed ClientSession is kept.
BridgeClient_get_session_keeps_closed(cl) ==
    IF cl.session = "None"
    THEN [cl EXCEPT !.session = "open", !.opened = @ + 1, !.openConns = @ + 1]
    ELSE cl

\* BridgeClient._get_session: a new ClientSession when there is none or the
\* one held is closed.
BridgeClient_get_session(cl) ==
    IF cl.session = "None" \/ cl.session = "closed"
    THEN [cl EXCEPT !.session = "open", !.opened = @ + 1, !.openConns = @ + 1]
    ELSE cl

\* BridgeClient.close: closes the ClientSession when it is open.
BridgeClient_close(cl) ==
    IF cl.session # "None" /\ cl.session # "closed"
    THEN [cl EXCEPT !.session = "closed", !.openConns = @ - 1]
    ELSE cl

\* _request retrying once after a failure.
request_count_retrying(o) == IF o = "ok" THEN 1 ELSE 2

\* BridgeClient._request: one session.get / session.request per call,
\* whatever it answers.
request_count(o) == 1

\* The sessionId field of the body answering POST /sessions.
SessionIdFields == {"absent", "null", "empty", "id"}

\* create_session, line 91: `not session_id`.
has_session_id(f) == f \notin {"absent", "null", "empty"}

\* The operations of the client that issue a request.
ClientOps == Ops \cup {"health_check", "BridgeClient_create_session",
                       "BridgeClient_close_session", "list_sessions"}

\* One operation of the client on the answer o: "ok", "True", "False" or the
\* exception that leaves it.
BridgeClient_call(op, o, f) ==
    IF op = "health_check" THEN BridgeClient_health_check(o)
    ELSE IF op = "BridgeClient_create_session"
    THEN BridgeClient_create_session(o, has_session_id(f))
    ELSE BridgeClient_op(o)

\* create_session reporting every failure of the client as BridgeSessionError.
create_session_except_wraps(e) == "BridgeSessionError"

\* ChromeBridgeAdapter.create_session, lines 121-123: the except clause logs
\* and re-raises what the client raised.
create_session_except(e) == e

\* get_or_create_session returning the newest tracked session when there is one.
get_or_create_session_target_reuses(reg, n) ==
    IF reg # {} THEN CHOOSE i \in reg : \A j \in reg : j <= i ELSE n + 1

\* get_or_create_session, lines 127-131: a new session each time, whatever the
\* registry reg holds; n session objects exist. The id of the object returned.
get_or_create_session_target(reg, n) == n + 1

\* is_available without its except clause.
is_available_propagates(o) == BridgeClient_health_check(o)

\* ChromeBridgeAdapter.is_available: the answer of health_check, every
\* exception becoming False.
is_available(o) ==
    LET h == BridgeClient_health_check(o) IN
    IF h \in {"True", "False"} THEN h ELSE "False"

----------------------------------------------------------------------------
\* Session Interface implementations (session.py)

\* raise RuntimeError("Session has been closed"): the closed-session error.
SessionClosedError == "RuntimeError: Session has been closed"

\* ChromeSession operations without the check of the closed flag.
ChromeSession_op_unguarded(sr, op, o) ==
    [r |-> IF op = "set_cookies" THEN "ok" ELSE o, issued |-> 1]

\* ChromeSession.navigate .. get_current_url on session record sr, the driver
\* answering o: the result and the number of driver calls issued.
\* set_cookies swallows the failure of add_cookie.
ChromeSession_op(sr, op, o) ==
    IF sr.closed THEN [r |-> SessionClosedError, issued |-> 0]
    ELSE [r |-> IF op = "set_cookies" THEN "ok" ELSE o, issued |-> 1]

\* BridgeSessionImpl.navigate .. get_current_url, the endpoint answering o.
BridgeSessionImpl_op(sr, op, o) ==
    IF sr.closed THEN [r |-> SessionClosedError, issued |-> 0]
    ELSE [r |-> BridgeClient_op(o), issued |-> 1]

\* ChromeSession.close, driver.quit() answering o: the new session record,
\* the result seen by the caller and the number of quit calls issued.
ChromeSession_close(sr, o) ==
    IF ~sr.closed
    THEN [s |-> [sr EXCEPT !.closed = TRUE, !.closeReqs = @ + 1],
          r |-> "ok", issued |-> 1]
    ELSE [s |-> sr, r |-> "ok", issued |-> 0]

\* BridgeSessionImpl.close without the except clause: the failure of the
\* remote close leaves the method (the finally clause still sets the flag).
BridgeSessionImpl_close_propagates(sr, o) ==
    IF ~sr.closed
    THEN [s |-> [sr EXCEPT !.closed = TRUE, !.closeReqs = @ + 1],
          r |-> BridgeClient_op(o), issued |-> 1]
    ELSE [s |-> sr, r |-> "ok", issued |-> 0]

\* BridgeSessionImpl.close, the DELETE request answering o.
BridgeSessionImpl_close(sr, o) ==
    IF ~sr.closed
    THEN [s |-> [sr EXCEPT !.closed = TRUE, !.closeReqs = @ + 1],
          r |-> "ok", issued |-> 1]
    ELSE [s |-> sr, r |-> "ok", issued |-> 0]

\* BrowserSession.close dispatched on the implementation; o is the answer of
\* the underlying close call ("ok" or a failure).
BrowserSession_close(sr, o) ==
    IF sr.kind = "chrome" THEN ChromeSession_close(sr, o)
    ELSE BridgeSessionImpl_close(sr, o)

\* BrowserSession operation dispatched on the implementation.
BrowserSession_op(sr, op, o) ==
    IF sr.kind = "chrome" THEN ChromeSession_op(sr, op, o)
    ELSE BridgeSessionImpl_op(sr, op, o)

\* BrowserSession.is_bridge_session
BrowserSession_is_bridge_session(sr) == sr.kind = "bridge"

\* Failure answers of the transport under a session of this kind.
Outcomes(sr) == IF sr.kind = "chrome" THEN DriverOutcomes ELSE ReqOutcomes

\* A remote close answered with a failure during BridgeSession.close on sr.
close_failed(sr, o1, o2) ==
    (sr.hasImpl /\ ~sr.closed /\ o1 # "ok") \/ o2 # "ok"

\* BridgeSession.close without the try/except around its own remote close.
BridgeSession_close_propagates(sr, o1, o2) ==
    LET c == IF sr.hasImpl THEN BridgeSessionImpl_close(sr, o1)
             ELSE [s |-> sr, r |-> "ok", issued |-> 0] IN
    IF c.r # "ok" THEN c
    ELSE [s |-> [c.s EXCEPT !.closeReqs = @ + 1,
                            !.bsClosed = BridgeClient_op(o2) = "ok"],
          r |-> BridgeClient_op(o2), issued |-> c.issued + 1]

\* BridgeSession.close sending nothing to the endpoint.
BridgeSession_close_nothing(sr, o1, o2) == [s |-> sr, r |-> "ok", issued |-> 0]

\* BridgeSession.close (adapter.py:82-90): close the browser session when it
\* exists, then one more remote close whose failure is logged; o1 and o2 are
\* the answers of the two DELETE requests.
BridgeSession_close(sr, o1, o2) ==
    LET c == IF sr.hasImpl THEN BridgeSessionImpl_close(sr, o1)
             ELSE [s |-> sr, r |-> "ok", issued |-> 0] IN
    IF c.r # "ok" THEN c
    ELSE [s |-> [c.s EXCEPT !.closeReqs = @ + 1, !.bsClosed = TRUE],
          r |-> "ok", issued |-> c.issued + 1]

----------------------------------------------------------------------------
\* Cookie authentication (adapter.py:34-80)

StartsWith(t, p) == Len(t) >= Len(p) /\ SubSeq(t, 1, Len(p)) = p

\* The token taken as the cookie value without looking for the prefix.
cookie_value_unstripped(cookie) == cookie

\* cookie[6:] when the token starts with "li_at=", else the token itself.
cookie_value(cookie) ==
    IF StartsWith(cookie, CookiePrefix)
    THEN SubSeq(cookie, Len(CookiePrefix) + 1, Len(cookie))
    ELSE cookie

\* The list handed to set_cookies (adapter.py:48-57): one cookie record.
linkedin_cookies(cookie) ==
    << [name |-> "li_at", value |-> cookie_value(cookie),
        domain |-> ".linkedin.com", path |-> "/",
        secure |-> TRUE, httpOnly |-> TRUE] >>

Contains(u, m) ==
    \E i \in 1..(Len(u) - Len(m) + 1) : SubSeq(u, i, i + Len(m) - 1) = m

\* The login test looking for "uas/login" only.
is_login_url_uas_only(u) == Contains(u, <<"uas", "login">>)

\* "login" in current_url or "uas/login" in current_url
is_login_url(u) == Contains(u, <<"login">>) \/ Contains(u, <<"uas", "login">>)

\* authenticate_linkedin without its except clause.
authenticate_except_reraise(e) == e

\* The except clause of authenticate_linkedin: what the call returns ("False")
\* or raises when a step has raised e.
authenticate_except(e) == "False"

----------------------------------------------------------------------------
\* Session Manager (manager.py)

\* The record of a manager operation at its start. prev: the session active
\* when it starts; sid: the bridge session it creates; probes, creates,
\* directs, adapters: health checks, session-create requests, direct drivers
\* and adapters made by it; health: what health_check returned or raised;
\* avail: the answer of is_available; bridgeExc: the
\* exception get_or_create_session raised; auth: what authenticate_linkedin
\* returned ("raised": it raised); authExc: a step of it raised; url: the
\* URL it read after the feed navigation. For an operation of the adapter or
\* of a bridge session called directly: sid: the session id it is given;
\* regStart: the registry when it starts; attempted, todo: the ids
\* close_all_sessions has passed to close_session and those left; failed: the
\* ids whose remote close answered with a failure; issued: the requests sent;
\* handleClosed: BridgeSession.close had completed on the session before.
\* For an operation of the client: outcome: the answer of its request;
\* field: the sessionId field of the body; ident: the identifier returned;
\* connBefore: _session when it starts; opens: the connections it opened.
\* clientExc: what the client's create_session raised inside the adapter's.
\* global: the operation was entered through the module-level functions;
\* managers: the SessionManager objects it constructed. authOps: the
\* operations authenticate_linkedin has invoked on the session, in order,
\* each with its argument and whether it succeeded. other: the frame of a
\* second get_session coroutine on the same manager, which is suspended in an
\* await or has finished: its position and its call record.
\* No second coroutine.
NoOther == [pc |-> "none", call |-> [op |-> "none"]]

NewCall(op, token) ==
    [op |-> op, token |-> token, status |-> "running", exc |-> "none",
     retval |-> 0, prev |-> mgr.curBS, sid |-> 0,
     probes |-> 0, creates |-> 0, directs |-> 0, adapters |-> 0,
     health |-> "none", avail |-> "none", bridgeExc |-> "none",
     auth |-> "none", authExc |-> FALSE, url |-> <<>>,
     regStart |-> {}, attempted |-> {}, todo |-> {}, failed |-> {},
     issued |-> 0, handleClosed |-> FALSE,
     outcome |-> "none", field |-> "none", ident |-> "none",
     clientExc |-> "none", connBefore |-> "none", opens |-> 0,
     global |-> FALSE, managers |-> 0, authOps |-> <<>>, other |-> NoOther]

NoCall == [op |-> "none", token |-> <<>>, status |-> "returned", exc |-> "none",
           retval |-> 0, prev |-> 0, sid |-> 0,
           probes |-> 0, creates |-> 0, directs |-> 0, adapters |-> 0,
           health |-> "none", avail |-> "none", bridgeExc |-> "none",
           auth |-> "none", authExc |-> FALSE, url |-> <<>>,
           regStart |-> {}, attempted |-> {}, todo |-> {}, failed |-> {},
           issued |-> 0, handleClosed |-> FALSE,
           outcome |-> "none", field |-> "none", ident |-> "none",
           clientExc |-> "none", connBefore |-> "none", opens |-> 0,
           global |-> FALSE, managers |-> 0, authOps |-> <<>>, other |-> NoOther]

NoLast == [op |-> "none", sid |-> 0, wasClosed |-> FALSE, r |-> "ok", issued |-> 0,
           cls |-> "none"]

\* SessionManager.__init__ under each configuration; nothing created yet.
Init ==
    /\ config \in [enabled : BOOLEAN, fallback : BOOLEAN]
    /\ mgr = [adapter |-> FALSE, cur |-> 0, curBS |-> 0, global |-> FALSE]
    /\ registry = {}
    /\ sess = [s \in SessionIds |-> NoSession]
    /\ nsess = 0
    /\ pc = "idle"
    /\ call = NoCall
    /\ last = NoLast
    /\ client = NoClient

\* The client of the adapter after a call on session record sr that sent
\* `issued` requests: every request goes through _get_session.
Requested(sr, issued) ==
    client' = IF sr.kind = "bridge" /\ issued > 0
              THEN BridgeClient_get_session(client) ELSE client

\* The operation in progress ends by raising e, with call record c.
Raise(c, e) ==
    /\ call' = [c EXCEPT !.status = "raised", !.exc = e]
    /\ pc' = "idle"

\* The operation in progress returns session s (0: nothing), with call record c.
Return(c, s) ==
    /\ call' = [c EXCEPT !.status = "returned", !.retval = s]
    /\ pc' = "idle"

\* get_session without the close_session() of line 103.
get_session_without_close(token) ==
    /\ pc = "idle"
    /\ nsess + 2 <= MaxSessions
    /\ call' = NewCall("get_session", token)
    /\ pc' = "try_bridge"
    /\ last' = NoLast
    /\ UNCHANGED <<client, config, mgr, registry, sess, nsess>>

\* get_session, line 103: the call starts by closing the existing session.
get_session(token) ==
    /\ pc = "idle"
    /\ nsess + 2 <= MaxSessions
    /\ call' = NewCall("get_session", token)
    /\ pc' = "close_browser"
    /\ last' = NoLast
    /\ UNCHANGED <<client, config, mgr, registry, sess, nsess>>

\* close_session called by the owner of the manager.
close_session ==
    /\ pc = "idle"
    /\ call' = NewCall("close_session", <<>>)
    /\ pc' = "close_browser"
    /\ last' = NoLast
    /\ UNCHANGED <<client, config, mgr, registry, sess, nsess>>

\* close_all called by the owner of the manager: line 139, close_session.
close_all ==
    /\ pc = "idle"
    /\ call' = NewCall("close_all", <<>>)
    /\ pc' = "close_browser"
    /\ last' = NoLast
    /\ UNCHANGED <<client, config, mgr, registry, sess, nsess>>

\* close_session, lines 120-122: close the Session Interface, clear the reference.
close_session_browser ==
    /\ pc = "close_browser"
    /\ IF mgr.curBS # 0
       THEN \E o \in Outcomes(sess[mgr.curBS]) :
              LET c == BrowserSession_close(sess[mgr.curBS], o) IN
              /\ sess' = [sess EXCEPT ![mgr.curBS] = c.s]
              /\ Requested(sess[mgr.curBS], c.issued)
              /\ IF c.r = "ok"
                 THEN /\ mgr' = [mgr EXCEPT !.curBS = 0]
                      /\ pc' = "close_raw"
                      /\ call' = call
                 ELSE /\ mgr' = mgr
                      /\ Raise(call, c.r)
       ELSE /\ pc' = "close_raw"
            /\ UNCHANGED <<sess, mgr, call, client>>
    /\ UNCHANGED <<config, registry, nsess, last>>

\* What follows close_session inside the operation op.
after_close(op) ==
    IF op = "get_session" THEN "try_bridge"
    ELSE IF op = "close_all" THEN "adapter_close"
    ELSE "return"

\* close_session without the try/except around driver.quit().
driver_quit_except_reraise(e) == e

\* close_session, lines 128-131: the failure of driver.quit() is logged.
driver_quit_except(e) == "ok"

\* close_session, lines 124-135: close the raw handle (BridgeSession.close, or
\* driver.quit() with its failure logged), clear the reference.
close_session_raw ==
    /\ pc = "close_raw"
    /\ \E o1 \in ReqOutcomes, o2 \in ReqOutcomes, od \in DriverOutcomes :
         LET s == mgr.cur
             c == IF s = 0 THEN [s |-> NoSession, r |-> "ok", issued |-> 0]
                  ELSE IF sess[s].kind = "bridge"
                  THEN BridgeSession_close(sess[s], o1, o2)
                  ELSE [s |-> [sess[s] EXCEPT !.closeReqs = @ + 1],
                        r |-> IF od = "ok" THEN "ok" ELSE driver_quit_except(od),
                        issued |-> 1]
             f == /\ s # 0
                  /\ IF sess[s].kind = "bridge" THEN close_failed(sess[s], o1, o2)
                     ELSE od # "ok"
             d == [call EXCEPT !.failed = IF f THEN {s} ELSE {}]
         IN
         /\ sess' = IF s = 0 THEN sess ELSE [sess EXCEPT ![s] = c.s]
         /\ Requested(c.s, c.issued)
         /\ IF c.r = "ok"
            THEN /\ mgr' = [mgr EXCEPT !.cur = 0]
                 /\ IF after_close(call.op) = "return"
                    THEN Return(d, 0)
                    ELSE /\ pc' = after_close(call.op)
                         /\ call' = d
            ELSE /\ mgr' = mgr
                 /\ Raise(d, c.r)
    /\ UNCHANGED <<config, registry, nsess, last>>
\* The bridge path taken whatever config.bridge.enabled says.
bridge_enabled_ignored(cfg) == TRUE

\* _try_bridge_session, lines 45-47: is the bridge path taken at all.
bridge_enabled(cfg) == cfg.enabled

\* The except clause re-raising whatever the fallback flag says.
try_bridge_session_except_reraise(e, fallback) == e

\* The except clause returning None whatever the fallback flag says.
try_bridge_session_except_swallow(e, fallback) ==
    IF e \in {"BridgeConnectionError", "BridgeSessionError"} THEN "None" ELSE e

\* The except clause with the test of the fallback flag inverted.
try_bridge_session_except_inverted(e, fallback) ==
    IF e \in {"BridgeConnectionError", "BridgeSessionError"}
    THEN (IF fallback THEN e ELSE "None")
    ELSE e

\* _try_bridge_session, lines 71-75: the except clause. The result is "None"
\* (the method returns None) or the exception that leaves the method.
try_bridge_session_except(e, fallback) ==
    IF e \in {"BridgeConnectionError", "BridgeSessionError"}
    THEN (IF ~fallback THEN e ELSE "None")
    ELSE e

\* The unavailable branch returning None without looking at the fallback flag.
try_bridge_session_probed_returns_none(avail, fallback) ==
    IF ~avail THEN "None" ELSE "create"

\* The answer of is_available not looked at.
try_bridge_session_probed_unchecked(avail, fallback) == "create"

\* _try_bridge_session, lines 53-57: the answer of is_available decides
\* between going on to create the session ("create"), returning None and
\* raising; the raise of line 56 happens inside the try block of line 49.
try_bridge_session_probed(avail, fallback) ==
    IF ~avail
    THEN IF ~fallback
         THEN try_bridge_session_except("BridgeConnectionError", fallback)
         ELSE "None"
    ELSE "create"

\* get_session, lines 108-113: _try_bridge_session returned None.
get_session_fallback(cfg) ==
    IF cfg.enabled /\ ~cfg.fallback THEN "RuntimeError" ELSE "selenium"

\* _try_bridge_session has ended with x ("None" or an exception), the call
\* record being c: get_session goes on from there.
AfterBridge(c, x) ==
    IF x = "None"
    THEN IF get_session_fallback(config) = "selenium"
         THEN /\ pc' = "selenium"
              /\ call' = c
         ELSE Raise(c, get_session_fallback(config))
    ELSE Raise(c, x)

\* _try_bridge_session, lines 45-50, with _get_bridge_adapter (lines 34-41).
try_bridge_session ==
    /\ pc = "try_bridge"
    /\ IF ~bridge_enabled(config)
       THEN /\ AfterBridge(call, "None")
            /\ UNCHANGED <<mgr, registry, client>>
       ELSE /\ mgr' = [mgr EXCEPT !.adapter = TRUE]
            /\ registry' = IF mgr.adapter THEN registry ELSE {}
            /\ client' = IF mgr.adapter THEN client ELSE NoClient
            /\ call' = [call EXCEPT !.adapters = IF mgr.adapter THEN @ ELSE @ + 1]
            /\ pc' = "probe"
    /\ UNCHANGED <<config, sess, nsess, last>>

\* _try_bridge_session, lines 53-57: the availability probe (GET /health).
try_bridge_session_probe ==
    /\ pc = "probe"
    /\ \E o \in ReqOutcomes :
         LET a == is_available(o)
             c == [call EXCEPT !.probes = @ + 1,
                               !.health = BridgeClient_health_check(o),
                               !.avail = a]
             x == IF a \in {"True", "False"}
                  THEN try_bridge_session_probed(a = "True", config.fallback)
                  ELSE try_bridge_session_except(a, config.fallback) IN
         IF x = "create"
         THEN /\ pc' = "create"
              /\ call' = c
         ELSE AfterBridge(c, x)
    /\ client' = BridgeClient_get_session(client)
    /\ UNCHANGED <<config, mgr, registry, sess, nsess, last>>

\* Authentication attempted whatever the token is.
authentication_supplied_always(token) == TRUE

\* get_or_create_session, line 134: is authentication attempted for the token.
authentication_supplied(token) == token # <<>>

\* get_or_create_session line 131 with create_session (lines 110-123): the
\* POST /sessions request; on success the new BridgeSession is registered.
get_or_create_session_create ==
    /\ pc = "create"
    /\ \E o \in ReqOutcomes, hasId \in BOOLEAN :
         LET b == BridgeClient_create_session(o, hasId)
             r == IF b = "ok" THEN "ok" ELSE create_session_except(b)
             c == [call EXCEPT !.creates = @ + 1, !.regStart = registry,
                               !.clientExc = b]
             s == get_or_create_session_target(registry, nsess) IN
         IF r = "ok"
         THEN /\ sess' = [sess EXCEPT ![s] = BridgeSession_init]
              /\ nsess' = IF s > nsess THEN s ELSE nsess
              /\ registry' = registry \cup {s}
              /\ call' = [c EXCEPT !.sid = s]
              /\ pc' = IF authentication_supplied(call.token)
                       THEN "auth_nav_root" ELSE "bridge_ok"
         ELSE /\ AfterBridge([c EXCEPT !.bridgeExc = r],
                             try_bridge_session_except(r, config.fallback))
              /\ UNCHANGED <<sess, nsess, registry>>
    /\ client' = BridgeClient_get_session(client)
    /\ UNCHANGED <<config, mgr, last>>

\* A step of authenticate_linkedin on the session of the call has raised e:
\* the except clause (lines 77-80) decides what the caller sees.
AuthRaised(c, e) ==
    LET rv == authenticate_except(e) IN
    IF rv = "False"
    THEN /\ sess' = [sess EXCEPT ![c.sid] =
                       [get_browser_session(@) EXCEPT !.authenticated = FALSE]]
         /\ call' = [c EXCEPT !.auth = "False", !.authExc = TRUE]
         /\ pc' = "auth_failed"
    ELSE /\ sess' = [sess EXCEPT ![c.sid] = get_browser_session(@)]
         /\ AfterBridge([c EXCEPT !.auth = "raised", !.authExc = TRUE,
                                  !.bridgeExc = rv],
                        try_bridge_session_except(rv, config.fallback))

\* The argument of the Session Interface operation made at position here of
\* authenticate_linkedin (lines 40, 57, 60, 66).
auth_argument(here) ==
    IF here = "auth_nav_root" THEN "https://www.linkedin.com"
    ELSE IF here = "auth_set_cookies" THEN "li_at"
    ELSE IF here = "auth_nav_feed" THEN "https://www.linkedin.com/feed/"
    ELSE "none"

\* Call record c after operation op was invoked at position here, with result r.
Invoked(c, here, op, r) ==
    [c EXCEPT !.authOps = Append(@, [op |-> op, arg |-> auth_argument(here),
                                      ok |-> (r = "ok")])]

\* One awaited step of authenticate_linkedin: Session Interface operation op
\* at position here, going on to position next when it succeeds.
AuthStep(here, op, next) ==
    /\ pc = here
    /\ \E o \in ReqOutcomes :
         LET sr == get_browser_session(sess[call.sid])
             res == BridgeSessionImpl_op(sr, op, o)
             c == Invoked(call, here, op, res.r) IN
         IF res.r = "ok"
         THEN /\ sess' = [sess EXCEPT ![call.sid] =
                            IF here = "auth_set_cookies"
                            THEN [sr EXCEPT !.cookie = linkedin_cookies(call.token)]
                            ELSE sr]
              /\ call' = c
              /\ pc' = next
         ELSE AuthRaised(c, res.r)
    /\ client' = BridgeClient_get_session(client)
    /\ UNCHANGED <<config, mgr, registry, nsess, last>>

\* authenticate_linkedin going from the root navigation to the feed one,
\* without lines 42-57.
authenticate_navigate_root_then_feed == AuthStep("auth_nav_root", "navigate", "auth_nav_feed")

\* authenticate_linkedin, lines 37-40: navigate to the site root.
authenticate_navigate_root == AuthStep("auth_nav_root", "navigate", "auth_set_cookies")

\* authenticate_linkedin, lines 42-57: build the li_at cookie and inject it.
authenticate_set_cookies == AuthStep("auth_set_cookies", "set_cookies", "auth_nav_feed")

\* authenticate_linkedin, lines 59-63: navigate to the feed, then the fixed
\* settling delay (asyncio.sleep does not fail).
authenticate_navigate_feed == AuthStep("auth_nav_feed", "navigate", "auth_get_url")

\* authenticate_linkedin, lines 65-75: read the URL and judge it.
authenticate_get_url ==
    /\ pc = "auth_get_url"
    /\ \E o \in ReqOutcomes, u \in URLs :
         LET sr == sess[call.sid]
             res == BridgeSessionImpl_op(sr, "get_current_url", o)
             c == Invoked(call, "auth_get_url", "get_current_url", res.r) IN
         IF res.r = "ok"
         THEN IF is_login_url(u)
              THEN /\ sess' = [sess EXCEPT ![call.sid].authenticated = FALSE]
                   /\ call' = [c EXCEPT !.auth = "False", !.url = u]
                   /\ pc' = "auth_failed"
              ELSE /\ sess' = [sess EXCEPT ![call.sid].authenticated = TRUE]
                   /\ call' = [c EXCEPT !.auth = "True", !.url = u]
                   /\ pc' = "bridge_ok"
         ELSE AuthRaised(c, res.r)
    /\ client' = BridgeClient_get_session(client)
    /\ UNCHANGED <<config, mgr, registry, nsess, last>>

\* get_or_create_session without the test of the result of authenticate_linkedin:
\* the session is returned as it is.
get_or_create_session_auth_failed_unchecked ==
    /\ pc = "auth_failed"
    /\ pc' = "bridge_ok"
    /\ UNCHANGED <<client, config, mgr, registry, sess, nsess, last, call>>

\* get_or_create_session, lines 136-144: authentication reported failure; the
\* new session is closed and BridgeSessionError leaves the method.
get_or_create_session_auth_failed ==
    /\ pc = "auth_failed"
    /\ \E o1 \in ReqOutcomes, o2 \in ReqOutcomes :
         LET c == BridgeSession_close(sess[call.sid], o1, o2)
             e == IF c.r = "ok" THEN "BridgeSessionError" ELSE c.r IN
         /\ sess' = [sess EXCEPT ![call.sid] = c.s]
         /\ Requested(c.s, c.issued)
         /\ AfterBridge([call EXCEPT !.bridgeExc = e],
                        try_bridge_session_except(e, config.fallback))
    /\ UNCHANGED <<config, mgr, registry, nsess, last>>

\* The bridge session neither stored nor returned: get_session falls through
\* to the direct driver.
try_bridge_session_success_fallthrough ==
    /\ pc = "bridge_ok"
    /\ sess' = [sess EXCEPT ![call.sid] = get_browser_session(@)]
    /\ pc' = "selenium"
    /\ UNCHANGED <<client, config, mgr, registry, nsess, last, call>>

\* _try_bridge_session without the assignment of line 65: the raw handle is
\* not stored.
try_bridge_session_success_without_handle ==
    /\ pc = "bridge_ok"
    /\ sess' = [sess EXCEPT ![call.sid] = get_browser_session(@)]
    /\ mgr' = [mgr EXCEPT !.curBS = call.sid]
    /\ Return(call, call.sid)
    /\ UNCHANGED <<client, config, registry, nsess, last>>

\* _try_bridge_session lines 65-69 and get_session lines 115-116: the bridge
\* session becomes the active one and its Session Interface is returned.
try_bridge_session_success ==
    /\ pc = "bridge_ok"
    /\ sess' = [sess EXCEPT ![call.sid] = get_browser_session(@)]
    /\ mgr' = [mgr EXCEPT !.cur = call.sid, !.curBS = call.sid]
    /\ Return(call, call.sid)
    /\ UNCHANGED <<client, config, registry, nsess, last>>

\* drivers.chrome.get_or_create_driver: a driver built for the token, logged
\* in with the li_at cookie whose value is the token without its prefix.
get_chrome_driver(token) ==
    [ChromeSession_init(token) EXCEPT
        !.cookie = IF token = <<>> THEN <<>> ELSE linkedin_cookies(token)]

\* _get_selenium_session building the driver without the token.
get_selenium_session_drops_token ==
    /\ pc = "selenium"
    /\ LET s == nsess + 1 IN
       /\ sess' = [sess EXCEPT ![s] = get_chrome_driver(<<>>)]
       /\ nsess' = s
       /\ mgr' = [mgr EXCEPT !.cur = s, !.curBS = s]
       /\ Return([call EXCEPT !.directs = @ + 1], s)
    /\ UNCHANGED <<client, config, registry, last>>

\* _get_selenium_session (lines 77-87) and get_session lines 115-116.
get_selenium_session ==
    /\ pc = "selenium"
    /\ LET s == nsess + 1 IN
       /\ sess' = [sess EXCEPT ![s] = get_chrome_driver(call.token)]
       /\ nsess' = s
       /\ mgr' = [mgr EXCEPT !.cur = s, !.curBS = s]
       /\ Return([call EXCEPT !.directs = @ + 1], s)
    /\ UNCHANGED <<client, config, registry, last>>

\* close_session, lines 162-165, without the try/except.
close_session_untracked_except_reraise(e) == e

\* close_session, lines 162-165: the failure of the remote close of an
\* unknown session is logged.
close_session_untracked_except(e) == "ok"

\* ChromeBridgeAdapter.close_session(id) on registry reg, sr being the session
\* object of that id: the registry and session after it, its result, the
\* requests it sent and whether one of them failed.
ChromeBridgeAdapter_close_session(reg, sr, id, o1, o2) ==
    IF id \in reg
    THEN LET c == BridgeSession_close(sr, o1, o2) IN
         [reg |-> IF c.r = "ok" THEN reg \ {id} ELSE reg,
          s |-> c.s, r |-> c.r, issued |-> c.issued,
          failed |-> close_failed(sr, o1, o2)]
    ELSE [reg |-> reg,
          s |-> IF sr.kind = "bridge" THEN [sr EXCEPT !.closeReqs = @ + 1] ELSE sr,
          r |-> IF BridgeClient_op(o1) = "ok" THEN "ok"
                ELSE close_session_untracked_except(BridgeClient_op(o1)),
          issued |-> 1, failed |-> o1 # "ok"]

\* The id the for loop takes next: ids are listed in the order of creation.
first(ids) == CHOOSE i \in ids : \A j \in ids : i <= j

\* close_all_sessions, lines 169-170: one turn of the loop, or its end.
adapter_close_all_sessions_step ==
    /\ pc = "close_all"
    /\ IF call.todo = {}
       THEN /\ IF call.op = "close_all"
               THEN pc' = "client_close" /\ call' = call
               ELSE Return(call, 0)
            /\ UNCHANGED <<registry, sess, client>>
       ELSE \E o1 \in ReqOutcomes, o2 \in ReqOutcomes :
              LET id == first(call.todo)
                  c == ChromeBridgeAdapter_close_session(registry, sess[id], id, o1, o2)
                  d == [call EXCEPT !.todo = @ \ {id},
                                    !.attempted = @ \cup {id},
                                    !.issued = @ + c.issued,
                                    !.failed = IF c.failed THEN @ \cup {id} ELSE @]
              IN
              /\ registry' = c.reg
              /\ sess' = [sess EXCEPT ![id] = c.s]
              /\ client' = BridgeClient_get_session(client)
              /\ IF c.r = "ok"
                 THEN /\ call' = d
                      /\ pc' = pc
                 ELSE Raise(d, c.r)
    /\ UNCHANGED <<config, mgr, nsess, last>>

\* close_all_sessions leaving the global reference in place.
close_all_sessions_keeps_manager(m, c) == m

\* close_all_sessions, line 186: close_all has returned to it and the global
\* reference is cleared (c: the call record, m: the manager's fields).
close_all_sessions_discard(m, c) ==
    IF c.global THEN [m EXCEPT !.global = FALSE] ELSE m

\* close_all, lines 141-142, and ChromeBridgeAdapter.close entering
\* close_all_sessions: nothing more to do without an adapter.
close_all_adapter ==
    /\ pc = "adapter_close"
    /\ IF mgr.adapter
       THEN /\ call' = [call EXCEPT !.regStart = registry, !.todo = registry,
                                    !.failed = {}]
            /\ pc' = "close_all"
            /\ mgr' = mgr
       ELSE /\ Return(call, 0)
            /\ mgr' = close_all_sessions_discard(mgr, call)
    /\ UNCHANGED <<client, config, registry, sess, nsess, last>>

\* close_all leaving the adapter reference in place.
close_all_client_close_keeps_adapter ==
    /\ pc = "client_close"
    /\ client' = BridgeClient_close(client)
    /\ Return(call, 0)
    /\ UNCHANGED <<config, mgr, registry, sess, nsess, last>>

\* ChromeBridgeAdapter.close, line 175 (the client's close), and close_all,
\* line 143: the adapter reference is cleared.
close_all_client_close ==
    /\ pc = "client_close"
    /\ client' = BridgeClient_close(client)
    /\ mgr' = close_all_sessions_discard([mgr EXCEPT !.adapter = FALSE], call)
    /\ Return(call, 0)
    /\ UNCHANGED <<config, registry, sess, nsess, last>>

\* get_current_session
get_current_session == mgr.curBS

\* is_bridge_mode answering for any active session, whatever its kind.
is_bridge_mode_any_session == mgr.curBS # 0

\* is_bridge_mode
is_bridge_mode ==
    mgr.curBS # 0 /\ BrowserSession_is_bridge_session(sess[mgr.curBS])

----------------------------------------------------------------------------
\* The module-level functions over the global manager (manager.py:155-194)

\* get_session_manager: the manager the global refers to, a new
\* SessionManager when it refers to none.
get_session_manager(m) ==
    IF m.global THEN m
    ELSE [adapter |-> FALSE, cur |-> 0, curBS |-> 0, global |-> TRUE]

\* get_browser_session(authentication): get_session on the global manager.
module_get_browser_session(token) ==
    /\ pc = "idle"
    /\ nsess + 2 <= MaxSessions
    /\ mgr' = get_session_manager(mgr)
    /\ call' = [NewCall("get_session", token) EXCEPT
                   !.global = TRUE,
                   !.managers = IF mgr.global THEN 0 ELSE 1,
                   !.prev = get_session_manager(mgr).curBS]
    /\ pc' = "close_browser"
    /\ last' = NoLast
    /\ UNCHANGED <<client, config, registry, sess, nsess>>

\* close_all_sessions: close_all on the global manager when there is one.
close_all_sessions ==
    /\ pc = "idle"
    /\ IF mgr.global
       THEN /\ call' = [NewCall("close_all", <<>>) EXCEPT !.global = TRUE]
            /\ pc' = "close_browser"
       ELSE Return([NewCall("close_all_sessions", <<>>) EXCEPT !.global = TRUE], 0)
    /\ last' = NoLast
    /\ UNCHANGED <<client, config, mgr, registry, sess, nsess>>

\* What get_current_browser_session returns (0: None).
current_browser_session ==
    IF mgr.global THEN get_current_session ELSE 0

\* get_current_browser_session going through get_session_manager().
get_current_browser_session_creates ==
    /\ mgr' = get_session_manager(mgr)
    /\ last' = [NoLast EXCEPT !.op = "get_current_browser_session",
                              !.sid = get_session_manager(mgr).curBS]
    /\ UNCHANGED <<client, config, registry, sess, nsess, pc, call>>

\* get_current_browser_session: a synchronous read, possible at any moment.
get_current_browser_session ==
    /\ last' = [NoLast EXCEPT !.op = "get_current_browser_session",
                              !.sid = current_browser_session]
    /\ UNCHANGED <<client, config, mgr, registry, sess, nsess, pc, call>>

----------------------------------------------------------------------------
\* The holder of a Session Interface uses it between manager operations.

\* One of navigate .. get_current_url on session s.
session_op(s, op) ==
    /\ pc = "idle"
    /\ sess[s].hasImpl
    /\ \E o \in Outcomes(sess[s]) :
         LET res == BrowserSession_op(sess[s], op, o) IN
         /\ last' = [op |-> op, sid |-> s, wasClosed |-> sess[s].closed,
                     r |-> res.r, issued |-> res.issued, cls |-> "none"]
         /\ Requested(sess[s], res.issued)
    /\ UNCHANGED <<config, mgr, registry, sess, nsess, pc, call>>

\* close() on session s.
session_close(s) ==
    /\ pc = "idle"
    /\ sess[s].hasImpl
    /\ \E o \in Outcomes(sess[s]) :
         LET c == BrowserSession_close(sess[s], o) IN
         /\ sess' = [sess EXCEPT ![s] = c.s]
         /\ last' = [op |-> "close", sid |-> s, wasClosed |-> sess[s].closed,
                     r |-> c.r, issued |-> c.issued, cls |-> "none"]
         /\ Requested(sess[s], c.issued)
    /\ UNCHANGED <<config, mgr, registry, nsess, pc, call>>

Next ==
    \/ \E t \in Tokens : get_session(t)
    \/ close_session
    \/ close_session_browser
    \/ close_session_raw
    \/ try_bridge_session
    \/ try_bridge_session_probe
    \/ get_or_create_session_create
    \/ authenticate_navigate_root
    \/ authenticate_set_cookies
    \/ authenticate_navigate_feed
    \/ authenticate_get_url
    \/ get_or_create_session_auth_failed
    \/ try_bridge_session_success
    \/ get_selenium_session
    \/ \E s \in SessionIds, op \in Ops : session_op(s, op)
    \/ \E s \in SessionIds : session_close(s)

Spec == Init /\ [][Next]_vars

----------------------------------------------------------------------------
\* The Session Manager through all its operations, close_all included; the
\* sessions it hands out are left to it.

NextLifecycle ==
    \/ \E t \in Tokens : get_session(t)
    \/ close_session
    \/ close_session_browser
    \/ close_session_raw
    \/ try_bridge_session
    \/ try_bridge_session_probe
    \/ get_or_create_session_create
    \/ authenticate_navigate_root
    \/ authenticate_set_cookies
    \/ authenticate_navigate_feed
    \/ authenticate_get_url
    \/ get_or_create_session_auth_failed
    \/ try_bridge_session_success
    \/ get_selenium_session
    \/ close_all
    \/ close_all_adapter
    \/ adapter_close_all_sessions_step
    \/ close_all_client_close

SpecLifecycle == Init /\ [][NextLifecycle]_vars

----------------------------------------------------------------------------
\* Two get_session coroutines on one manager and one event loop. pc and call
\* belong to the coroutine that is running; call.other holds the other one.

\* The running coroutine is inside an await that waits for the bridge
\* endpoint: the only places where the event loop can run another coroutine.
\* ChromeSession.close, driver.quit() and _get_selenium_session do not wait.
Suspended ==
    \/ pc \in {"probe", "create", "auth_nav_root", "auth_set_cookies",
               "auth_nav_feed", "auth_get_url", "auth_failed"}
    \/ /\ pc = "close_browser" /\ mgr.curBS # 0
       /\ sess[mgr.curBS].kind = "bridge" /\ ~sess[mgr.curBS].closed
    \/ pc = "close_raw" /\ mgr.cur # 0 /\ sess[mgr.cur].kind = "bridge"

\* Session objects one get_session can create: a bridge session and, after
\* it failed with fallback allowed, a direct one.
SessionsPerCall == IF config.enabled /\ config.fallback THEN 2 ELSE 1

\* The frame of the running coroutine.
Frame == [pc |-> pc, call |-> [call EXCEPT !.other = NoOther]]

\* get_session(token) entered by a task while the manager is idle or while
\* the get_session of another task is suspended (there is no lock).
get_session_task(token) ==
    /\ pc = "idle" \/ Suspended
    /\ call.other.pc \in {"none", "idle"}
    /\ nsess + SessionsPerCall + (IF Suspended THEN SessionsPerCall ELSE 0)
          <= MaxSessions
    /\ call' = [NewCall("get_session", token) EXCEPT !.other = Frame]
    /\ pc' = "close_browser"
    /\ last' = NoLast
    /\ UNCHANGED <<client, config, mgr, registry, sess, nsess>>

\* The event loop resumes the suspended coroutine; the running one is
\* suspended in an await or has finished.
resume_other ==
    /\ pc = "idle" \/ Suspended
    /\ call.other.pc \notin {"none", "idle"}
    /\ pc' = call.other.pc
    /\ call' = [call.other.call EXCEPT !.other = Frame]
    /\ UNCHANGED <<client, config, mgr, registry, sess, nsess, last>>

NextTasks ==
    \/ \E t \in Tokens : get_session_task(t)
    \/ resume_other
    \/ close_session_browser
    \/ close_session_raw
    \/ try_bridge_session
    \/ try_bridge_session_probe
    \/ get_or_create_session_create
    \/ authenticate_navigate_root
    \/ authenticate_set_cookies
    \/ authenticate_navigate_feed
    \/ authenticate_get_url
    \/ get_or_create_session_auth_failed
    \/ try_bridge_session_success
    \/ get_selenium_session

SpecTasks == Init /\ [][NextTasks]_vars

----------------------------------------------------------------------------
\* An extraction caller choosing its path (tools/person.py:44-51)

\* The classes of the objects a caller can hold for a session.
Classes == {"ChromeSession", "BridgeSessionImpl", "webdriver.Chrome"}

\* The class of the Session Interface of session record sr.
class_of(sr) ==
    IF sr.kind = "bridge" THEN "BridgeSessionImpl" ELSE "ChromeSession"

\* isinstance(x, BrowserSession) for an object of class cls: ChromeSession and
\* BridgeSessionImpl both derive from BrowserSession (session.py:62, 136).
isinstance_BrowserSession(cls) == cls \in {"ChromeSession", "BridgeSessionImpl"}

\* utils.is_bridge_session(session_or_driver)
is_bridge_session(cls) == isinstance_BrowserSession(cls)

\* get_person_profile, line 49: the caller holds the Session Interface of
\* the active session, or the raw driver of a direct one, and asks the
\* helper which extraction path to take.
choose_extraction_path(cls) ==
    /\ pc = "idle"
    /\ mgr.curBS # 0
    /\ IF cls = "webdriver.Chrome"
       THEN sess[mgr.curBS].kind = "chrome"
       ELSE cls = class_of(sess[mgr.curBS])
    /\ last' = [NoLast EXCEPT !.op = "is_bridge_session", !.sid = mgr.curBS,
                              !.cls = cls,
                              !.r = IF is_bridge_session(cls) THEN "True" ELSE "False"]
    /\ UNCHANGED <<client, config, mgr, registry, sess, nsess, pc, call>>

NextExtract ==
    \/ \E t \in Tokens : get_session(t)
    \/ close_session
    \/ close_session_browser
    \/ close_session_raw
    \/ try_bridge_session
    \/ try_bridge_session_probe
    \/ get_or_create_session_create
    \/ authenticate_navigate_root
    \/ authenticate_set_cookies
    \/ authenticate_navigate_feed
    \/ authenticate_get_url
    \/ get_or_create_session_auth_failed
    \/ try_bridge_session_success
    \/ get_selenium_session
    \/ \E cls \in Classes : choose_extraction_path(cls)

SpecExtract == Init /\ [][NextExtract]_vars

----------------------------------------------------------------------------
\* The tool-registration layer: only the module-level functions are called.

NextGlobal ==
    \/ \E t \in Tokens : module_get_browser_session(t)
    \/ close_all_sessions
    \/ get_current_browser_session
    \/ close_session_browser
    \/ close_session_raw
    \/ try_bridge_session
    \/ try_bridge_session_probe
    \/ get_or_create_session_create
    \/ authenticate_navigate_root
    \/ authenticate_set_cookies
    \/ authenticate_navigate_feed
    \/ authenticate_get_url
    \/ get_or_create_session_auth_failed
    \/ try_bridge_session_success
    \/ get_selenium_session
    \/ close_all_adapter
    \/ adapter_close_all_sessions_step
    \/ close_all_client_close

SpecGlobal == Init /\ [][NextGlobal]_vars

----------------------------------------------------------------------------
\* The cookie injection on its own: get_session(t) has reached the
\* set_cookies step of authenticate_linkedin on its new bridge session
\* (bridge enabled and available, session 1 created, root navigation done),
\* for every token of CookieTokens that makes it authenticate.

InitCookie ==
    /\ config = [enabled |-> TRUE, fallback |-> FALSE]
    /\ mgr = [adapter |-> TRUE, cur |-> 0, curBS |-> 0, global |-> FALSE]
    /\ registry = {1}
    /\ sess = [s \in SessionIds |->
                IF s = 1 THEN get_browser_session(BridgeSession_init) ELSE NoSession]
    /\ nsess = 1
    /\ pc = "auth_set_cookies"
    /\ \E t \in CookieTokens :
         /\ authentication_supplied(t)
         /\ call = [NewCall("get_session", t) EXCEPT
                       !.sid = 1, !.adapters = 1, !.probes = 1, !.creates = 1,
                       !.avail = "True"]
    /\ last = NoLast
    /\ client = BridgeClient_get_session(NoClient)

NextCookie ==
    \/ authenticate_set_cookies
    \/ authenticate_navigate_feed
    \/ authenticate_get_url
    \/ get_or_create_session_auth_failed
    \/ try_bridge_session_success

SpecCookie == InitCookie /\ [][NextCookie]_vars
----------------------------------------------------------------------------
\* The Bridge Adapter and its Bridge Sessions used directly (adapter.py): the
\* caller owns a ChromeBridgeAdapter, creates sessions, takes their Session
\* Interface, operates and closes them.

\* ChromeBridgeAdapter.__init__: an empty registry.
InitAdapter ==
    /\ config = [enabled |-> TRUE, fallback |-> FALSE]
    /\ mgr = [adapter |-> TRUE, cur |-> 0, curBS |-> 0, global |-> FALSE]
    /\ registry = {}
    /\ sess = [s \in SessionIds |-> NoSession]
    /\ nsess = 0
    /\ pc = "idle"
    /\ call = NoCall
    /\ last = NoLast
    /\ client = NoClient

\* The operation ends at once with result r ("ok" or the exception).
Done(c, r) ==
    call' = [c EXCEPT !.status = IF r = "ok" THEN "returned" ELSE "raised",
                      !.exc = IF r = "ok" THEN "none" ELSE r]

\* ChromeBridgeAdapter.create_session: POST /sessions, register the session.
adapter_create_session ==
    /\ pc = "idle"
    /\ nsess < MaxAdapterSessions
    /\ \E o \in ReqOutcomes, hasId \in BOOLEAN :
         LET b == BridgeClient_create_session(o, hasId)
             r == IF b = "ok" THEN "ok" ELSE create_session_except(b)
             c == [NewCall("create_session", <<>>) EXCEPT
                      !.creates = 1, !.regStart = registry, !.clientExc = b]
             s == nsess + 1 IN
         IF r = "ok"
         THEN /\ sess' = [sess EXCEPT ![s] = BridgeSession_init]
              /\ nsess' = s
              /\ registry' = registry \cup {s}
              /\ Done([c EXCEPT !.sid = s], r)
         ELSE /\ Done(c, r)
              /\ UNCHANGED <<sess, nsess, registry>>
    /\ client' = BridgeClient_get_session(client)
    /\ UNCHANGED <<config, mgr, pc, last>>

\* BridgeSession.get_browser_session on session s.
bridge_session_get_browser_session(s) ==
    /\ pc = "idle"
    /\ sess[s].kind = "bridge"
    /\ sess' = [sess EXCEPT ![s] = get_browser_session(sess[s])]
    /\ UNCHANGED <<client, config, mgr, registry, nsess, pc, call, last>>

\* One of navigate .. get_current_url on the Session Interface of session s.
bridge_session_op(s, op) ==
    /\ pc = "idle"
    /\ sess[s].kind = "bridge"
    /\ sess[s].hasImpl
    /\ \E o \in ReqOutcomes :
         LET res == BrowserSession_op(sess[s], op, o) IN
         /\ Done([NewCall(op, <<>>) EXCEPT !.sid = s, !.regStart = registry,
                                           !.issued = res.issued,
                                           !.handleClosed = sess[s].bsClosed],
                 res.r)
         /\ Requested(sess[s], res.issued)
    /\ UNCHANGED <<config, mgr, registry, sess, nsess, pc, last>>

\* BridgeSession.close on session s, called by its holder.
bridge_session_close(s) ==
    /\ pc = "idle"
    /\ sess[s].kind = "bridge"
    /\ sess[s].closeReqs + 2 <= MaxCloseReqs
    /\ \E o1 \in ReqOutcomes, o2 \in ReqOutcomes :
         LET c == BridgeSession_close(sess[s], o1, o2) IN
         /\ sess' = [sess EXCEPT ![s] = c.s]
         /\ Done([NewCall("BridgeSession_close", <<>>) EXCEPT
                     !.sid = s, !.regStart = registry, !.issued = c.issued,
                     !.failed = IF close_failed(sess[s], o1, o2) THEN {s} ELSE {}],
                 c.r)
         /\ Requested(c.s, c.issued)
    /\ UNCHANGED <<config, mgr, registry, nsess, pc, last>>

\* ChromeBridgeAdapter.close_session(id), called by the owner of the adapter
\* with any id, tracked or not.
adapter_close_session(id) ==
    /\ pc = "idle"
    /\ sess[id].closeReqs + 2 <= MaxCloseReqs
    /\ \E o1 \in ReqOutcomes, o2 \in ReqOutcomes :
         LET c == ChromeBridgeAdapter_close_session(registry, sess[id], id, o1, o2) IN
         /\ registry' = c.reg
         /\ sess' = [sess EXCEPT ![id] = c.s]
         /\ Done([NewCall("adapter_close_session", <<>>) EXCEPT
                     !.sid = id, !.regStart = registry, !.issued = c.issued,
                     !.attempted = {id},
                     !.failed = IF c.failed THEN {id} ELSE {}],
                 c.r)
         /\ client' = BridgeClient_get_session(client)
    /\ UNCHANGED <<config, mgr, nsess, pc, last>>

\* ChromeBridgeAdapter.close_all_sessions, line 169: the list of the ids
\* tracked now.
adapter_close_all_sessions ==
    /\ pc = "idle"
    /\ \A s \in registry : sess[s].closeReqs + 2 <= MaxCloseReqs
    /\ call' = [NewCall("close_all_sessions", <<>>) EXCEPT
                   !.regStart = registry, !.todo = registry]
    /\ pc' = "close_all"
    /\ UNCHANGED <<client, config, mgr, registry, sess, nsess, last>>

\* The owner of the adapter creates sessions and closes them through it.
NextAdapter ==
    \/ adapter_create_session
    \/ \E s \in SessionIds : bridge_session_get_browser_session(s)
    \/ \E id \in SessionIds : adapter_close_session(id)
    \/ adapter_close_all_sessions
    \/ adapter_close_all_sessions_step

SpecAdapter == InitAdapter /\ [][NextAdapter]_vars

\* The holder of a Bridge Session closes it, takes its Session Interface
\* before or after, and operates it.
NextHandle ==
    \/ adapter_create_session
    \/ \E s \in SessionIds : bridge_session_get_browser_session(s)
    \/ \E s \in SessionIds : bridge_session_close(s)
    \/ \E s \in SessionIds, op \in Ops : bridge_session_op(s, op)

SpecHandle == InitAdapter /\ [][NextHandle]_vars

----------------------------------------------------------------------------
\* The Transport Client used directly (client.py): the caller owns a
\* BridgeClient and calls its operations and close() in any order.

\* BridgeClient.__init__: no connection yet.
InitClient ==
    /\ config = [enabled |-> TRUE, fallback |-> FALSE]
    /\ mgr = [adapter |-> FALSE, cur |-> 0, curBS |-> 0, global |-> FALSE]
    /\ registry = {}
    /\ sess = [s \in SessionIds |-> NoSession]
    /\ nsess = 0
    /\ pc = "idle"
    /\ call = NoCall
    /\ last = NoLast
    /\ client = NoClient

\* One operation of the client: _get_session, the request answering o (its
\* body carrying the sessionId field f), the mapping of the answer.
client_op(op) ==
    /\ pc = "idle"
    /\ BridgeClient_get_session(client).opened <= MaxConnections
    /\ \E o \in ReqOutcomes,
          f \in (IF op = "BridgeClient_create_session"
                 THEN SessionIdFields ELSE {"absent"}) :
         LET r == BridgeClient_call(op, o, f)
             c == [NewCall(op, <<>>) EXCEPT
                      !.outcome = o, !.field = f,
                      !.issued = request_count(o),
                      !.connBefore = client.session,
                      !.opens = BridgeClient_get_session(client).opened - client.opened,
                      !.health = IF op = "health_check" THEN r ELSE "none",
                      !.ident = IF op = "BridgeClient_create_session" /\ r = "ok"
                                THEN f ELSE "none"]
         IN
         /\ client' = BridgeClient_get_session(client)
         /\ Done(c, IF r \in {"True", "False"} THEN "ok" ELSE r)
    /\ UNCHANGED <<config, mgr, registry, sess, nsess, pc, last>>

\* BridgeClient.close called by the owner of the client.
client_close ==
    /\ pc = "idle"
    /\ client' = BridgeClient_close(client)
    /\ call' = [NewCall("BridgeClient_close", <<>>) EXCEPT
                   !.status = "returned", !.connBefore = client.session]
    /\ UNCHANGED <<config, mgr, registry, sess, nsess, pc, last>>

NextClient ==
    \/ \E op \in ClientOps : client_op(op)
    \/ client_close

SpecClient == InitClient /\ [][NextClient]_vars

----------------------------------------------------------------------------
\* Properties

\* Session s exists and its close has not completed.
Live(s) ==
    sess[s].kind # "none" /\ ~(sess[s].closed /\ sess[s].closeReqs >= 1)

\* The get_session in progress (or just completed) has passed its close step.
PastClose ==
    \/ pc \in {"try_bridge", "probe", "create", "auth_nav_root", "auth_set_cookies",
               "auth_nav_feed", "auth_get_url", "auth_failed", "bridge_ok", "selenium"}
    \/ call.probes > 0 \/ call.creates > 0 \/ call.directs > 0

\* C1: a get_session that starts while session S is active has closed S (its
\* Session Interface and its underlying handle, both references dropped)
\* before it probes the bridge, requests a remote session or builds a direct
\* driver; at no time are two sessions open under the manager.
C1_ClosePrecedesCreate ==
    /\ (call.op = "get_session" /\ call.prev # 0 /\ PastClose)
          => /\ sess[call.prev].closed
             /\ sess[call.prev].closeReqs >= 1
             /\ mgr.cur # call.prev
             /\ mgr.curBS # call.prev
    /\ Cardinality({s \in SessionIds : Live(s)}) <= 1

C1_Witness ==
    /\ call.op = "get_session" /\ call.status = "returned"
    /\ call.prev # 0 /\ call.retval # 0 /\ call.retval # call.prev
    /\ sess[call.prev].closed /\ ~sess[call.retval].closed
    /\ mgr.curBS = call.retval

\* C2: with the bridge disabled, get_session creates no adapter, issues no
\* health check and no session-create request, and returns a direct-driver
\* session.
C2_DisabledNeverContactsBridge ==
    ~config.enabled =>
        /\ ~mgr.adapter
        /\ call.op = "get_session" =>
             /\ call.adapters = 0 /\ call.probes = 0 /\ call.creates = 0
             /\ call.status # "raised"
             /\ call.status = "returned" =>
                  /\ call.retval # 0
                  /\ sess[call.retval].kind = "chrome"
                  /\ ~BrowserSession_is_bridge_session(sess[call.retval])

C2_Witness ==
    /\ ~config.enabled
    /\ call.op = "get_session" /\ call.status = "returned"
    /\ call.retval # 0 /\ sess[call.retval].kind = "chrome"

\* C3: bridge enabled, probe says unavailable, fallback disallowed: get_session
\* fails with the bridge connection error and builds no direct driver.
C3_UnavailableNoFallbackFails ==
    (call.op = "get_session" /\ config.enabled /\ ~config.fallback
        /\ call.avail = "False")
    => /\ pc = "idle"
       /\ call.status = "raised"
       /\ call.exc = "BridgeConnectionError"
       /\ call.directs = 0 /\ call.creates = 0
       /\ mgr.cur = 0 /\ mgr.curBS = 0

C3_Witness ==
    /\ call.op = "get_session" /\ config.enabled /\ ~config.fallback
    /\ call.avail = "False" /\ call.status = "raised"
    /\ call.exc = "BridgeConnectionError"

C6_BridgeFailurePropagates ==
    (call.op = "get_session" /\ config.enabled /\ ~config.fallback
        /\ call.avail = "True" /\ call.bridgeExc # "none")
    => /\ pc = "idle"
       /\ call.status = "raised"
       /\ call.exc = call.bridgeExc
       /\ call.exc \in {"BridgeConnectionError", "BridgeSessionError"}
       /\ call.directs = 0
       /\ get_current_session = 0
       /\ mgr.cur = 0
       /\ ~is_bridge_mode

C6_Witness ==
    /\ call.op = "get_session" /\ config.enabled /\ ~config.fallback
    /\ call.avail = "True" /\ call.auth = "False"
    /\ call.status = "raised" /\ call.exc = "BridgeSessionError"
    /\ get_current_session = 0

\* The get_session of the call record has created its bridge session and
\* neither creation nor authentication has failed.
BridgeCreated ==
    /\ call.op = "get_session" /\ call.sid # 0
    /\ call.bridgeExc = "none"
    /\ call.auth \in {"True", "none"}
    /\ pc \notin {"auth_nav_root", "auth_set_cookies", "auth_nav_feed", "auth_get_url"}

\* C7: bridge enabled and available and the authenticated bridge session
\* created: get_session stores it as the active session, returns its Session
\* Interface (a bridge session) and builds no direct driver.
C7_BridgeSuccessIsTerminal ==
    BridgeCreated
    => /\ pc \in {"bridge_ok", "idle"}
       /\ call.directs = 0
       /\ pc = "idle" =>
            /\ call.status = "returned"
            /\ call.retval = call.sid
            /\ BrowserSession_is_bridge_session(sess[call.retval])
            /\ sess[call.retval].hasImpl
            /\ mgr.cur = call.sid
            /\ get_current_session = call.sid
            /\ is_bridge_mode

C7_Witness ==
    /\ BridgeCreated /\ pc = "idle" /\ call.status = "returned"
    /\ call.auth = "True"
    /\ call.retval = call.sid /\ is_bridge_mode

\* C8: on either implementation, an operation other than close and
\* is_bridge_session invoked after close() fails with the closed-session
\* error and issues no call to the driver or the bridge endpoint; close
\* itself stays callable.
C8_ClosedRejectsOperations ==
    /\ (last.op \in Ops /\ last.wasClosed)
          => (last.r = SessionClosedError /\ last.issued = 0)
    /\ (last.op \in Ops /\ ~last.wasClosed)
          => (last.r # SessionClosedError /\ last.issued = 1)
    /\ last.op = "close" => last.r = "ok"

C8_Witness ==
    /\ last.op = "navigate" /\ last.wasClosed
    /\ last.r = SessionClosedError /\ last.issued = 0
    /\ sess[last.sid].kind = "chrome"

\* C9: close() on either implementation never raises, whatever the underlying
\* close call answers; it leaves the session closed; a close() of a closed
\* session issues no underlying close call; a closed session stays closed.
C9_CloseNeverRaisesIdempotent ==
    [][ /\ \A s \in SessionIds : sess[s].closed => sess'[s].closed
        /\ last'.op = "close" =>
             /\ last'.r = "ok"
             /\ sess'[last'.sid].closed
             /\ last'.wasClosed = sess[last'.sid].closed
             /\ last'.issued = (IF last'.wasClosed THEN 0 ELSE 1)
             /\ sess'[last'.sid].closeReqs = sess[last'.sid].closeReqs + last'.issued
        /\ (pc = "close_browser" /\ pc' = "idle") => call'.status # "raised"
      ]_vars

C9_Witness ==
    /\ last.op = "close" /\ last.wasClosed /\ last.r = "ok" /\ last.issued = 0
    /\ sess[last.sid].closed /\ sess[last.sid].kind = "bridge"

\* C10: authenticate_linkedin never raises: when any of its steps fails it
\* returns false and the authenticated flag of the session is false.
C10_AuthenticateNeverRaises ==
    /\ call.auth # "raised"
    /\ call.authExc =>
         /\ call.auth = "False"
         /\ ~sess[call.sid].authenticated
         /\ call.bridgeExc \in {"none", "BridgeSessionError"}

C10_Witness ==
    /\ call.authExc /\ call.auth = "False" /\ pc = "auth_failed"
    /\ ~sess[call.sid].authenticated
\* The URL carries a login-path marker.
HasLoginMarker(u) == \E i \in 1..Len(u) : u[i] = "login"

\* C11: when every step of authenticate_linkedin succeeds, the URL read after
\* the feed navigation decides: with a login marker it returns false and the
\* session is unauthenticated, otherwise it returns true and the session is
\* authenticated; after every call the flag equals the returned value.
C11_UrlDecidesAuthentication ==
    /\ (call.auth \in {"True", "False"} /\ ~call.authExc)
          => IF HasLoginMarker(call.url)
             THEN call.auth = "False" /\ ~sess[call.sid].authenticated
             ELSE call.auth = "True" /\ sess[call.sid].authenticated
    /\ call.auth \in {"True", "False"}
          => (sess[call.sid].authenticated <=> call.auth = "True")

C11_Witness ==
    /\ call.auth = "False" /\ ~call.authExc /\ call.url = <<"login">>
    /\ ~sess[call.sid].authenticated
\* The ends of token t.
Suffixes(t) == { SubSeq(t, i, Len(t)) : i \in 1..(Len(t) + 1) }

\* C12: the cookie authenticate_linkedin injects for token T is one record
\* named li_at for domain .linkedin.com and path /, secure and httpOnly, whose
\* value is T without its leading "li_at=" when T starts with it, else T.
C12_InjectedCookie ==
    (call.sid # 0 /\ sess[call.sid].cookie # <<>>)
    => LET T == call.token
           c == sess[call.sid].cookie[1] IN
       /\ Len(sess[call.sid].cookie) = 1
       /\ c.name = "li_at" /\ c.domain = ".linkedin.com" /\ c.path = "/"
       /\ c.secure /\ c.httpOnly
       /\ \A v \in Suffixes(T) : T = CookiePrefix \o v => c.value = v
       /\ (\A v \in Suffixes(T) : T # CookiePrefix \o v) => c.value = T

C12_Witness ==
    /\ call.sid # 0 /\ sess[call.sid].cookie # <<>>
    /\ call.token = CookiePrefix \o <<"A">> \o CookiePrefix
    /\ sess[call.sid].cookie[1].value = <<"A">> \o CookiePrefix
    /\ pc = "auth_nav_feed"
\* C13: when the authentication of a supplied token fails,
\* get_or_create_session issues a close for the session it has just created
\* and raises the session error; the session is never returned.
C13_FailedAuthenticationClosesAndRaises ==
    (call.auth = "False" /\ pc # "auth_failed")
    => /\ sess[call.sid].closeReqs >= 1
       /\ sess[call.sid].closed
       /\ call.bridgeExc = "BridgeSessionError"
       /\ pc \in {"selenium", "idle"}
       /\ call.retval # call.sid
       /\ mgr.cur # call.sid /\ mgr.curBS # call.sid

C13_Witness ==
    /\ call.auth = "False" /\ pc = "idle"
    /\ call.bridgeExc = "BridgeSessionError"
    /\ sess[call.sid].closeReqs >= 1 /\ sess[call.sid].closed

\* C14: after get_or_create_session has created a session, its authentication
\* has failed on a login URL and the session error has been raised, the
\* registry of the adapter does not contain the session.
C14_RegistryDropsFailedSession ==
    (call.auth = "False" /\ ~call.authExc /\ HasLoginMarker(call.url)
        /\ call.bridgeExc = "BridgeSessionError")
    => call.sid \notin registry
\* C17: after the Session Manager has closed an active bridge session, in
\* close_session or in the close step of the next get_session, the registry
\* of the adapter no longer contains that session, and the registry never
\* holds more than one session.
C17_RegistryHoldsOnlyOpenSessions ==
    /\ (/\ call.op \in {"get_session", "close_session"}
        /\ call.prev # 0
        /\ sess[call.prev].kind = "bridge"
        /\ (PastClose \/ (pc = "idle" /\ call.status = "returned")))
       => call.prev \notin registry
    /\ pc = "idle" => Cardinality(registry) <= 1
\* C19: is_available never raises: it returns what health_check returns, and
\* False whenever health_check fails with an exception.
C19_IsAvailableNeverRaises ==
    call.health # "none"
    => /\ call.avail \in {"True", "False"}
       /\ call.health = "True" => call.avail = "True"
       /\ call.health # "True" => call.avail = "False"
       /\ call.exc \in {"none", "BridgeConnectionError", "BridgeSessionError"}

C19_Witness ==
    /\ call.health = "TimeoutError" /\ call.avail = "False"
    /\ config.fallback /\ call.status = "returned"

\* C20: health_check never raises, whatever the request does (success,
\* connection refused, timeout, bad status, malformed body): it returns true
\* or false.
C20_HealthCheckNeverRaises ==
    call.health \in {"none", "True", "False"}
\* C15: close_all_sessions passes every id that is in the registry when it
\* is called to close_session, whatever the remote closes answer, does not
\* raise, and returns with the registry empty and every one of those
\* sessions closed.
C15_CloseAllClosesEverySession ==
    call.op = "close_all_sessions"
    => /\ call.status # "raised"
       /\ call.attempted \cup call.todo = call.regStart
       /\ registry = call.todo
       /\ \A s \in call.attempted : sess[s].bsClosed
       /\ (pc = "idle") => /\ call.status = "returned"
                           /\ call.attempted = call.regStart
                           /\ registry = {}

C15_Witness ==
    /\ call.op = "close_all_sessions" /\ pc = "idle"
    /\ call.regStart = {1, 2}
    /\ call.failed = {1}
    /\ call.attempted = {1, 2}

\* C16: close_session(id) with id tracked closes the Bridge Session and
\* removes id from the registry, also when a remote close fails; with id
\* untracked it sends one remote close, does not raise when that fails, and
\* leaves the registry as it was.
C16_CloseSessionTrackedOrNot ==
    call.op = "adapter_close_session"
    => /\ call.status = "returned"
       /\ (call.sid \in call.regStart)
            => /\ registry = call.regStart \ {call.sid}
               /\ sess[call.sid].bsClosed
               /\ call.issued >= 1
       /\ (call.sid \notin call.regStart)
            => /\ registry = call.regStart
               /\ call.issued = 1

C16_Witness ==
    /\ call.op = "adapter_close_session"
    /\ call.sid \notin call.regStart
    /\ call.sid \in call.failed
    /\ call.regStart # {}

\* C18: once BridgeSession.close() has completed on a Bridge Session, every
\* operation on a Session Interface obtained from it is rejected as closed
\* and sends no request.
C18_ClosedHandleRejectsOperations ==
    (call.op \in Ops /\ call.handleClosed)
    => /\ call.exc = SessionClosedError
       /\ call.issued = 0
\* C21: whatever operation of the client is called, a network-level failure
\* of its request (refused connection, timeout, bad status, malformed body)
\* reaches the caller as BridgeConnectionError.
C21_NetworkFailureIsConnectionError ==
    (call.op \in ClientOps \ {"health_check"} /\ call.outcome \notin {"none", "ok"})
    => (call.status = "raised" /\ call.exc = "BridgeConnectionError")

\* C22: the client's create_session, answered successfully, raises
\* BridgeSessionError when the body has no session identifier (absent, null
\* or empty) and otherwise returns the identifier of the body.
C22_CreateSessionNeedsIdentifier ==
    (call.op = "BridgeClient_create_session" /\ call.outcome = "ok")
    => IF call.field \in {"absent", "null", "empty"}
       THEN call.status = "raised" /\ call.exc = "BridgeSessionError"
       ELSE call.status = "returned" /\ call.ident = call.field

C22_Witness ==
    /\ call.op = "BridgeClient_create_session" /\ call.outcome = "ok"
    /\ call.field = "null" /\ call.exc = "BridgeSessionError"

\* C23: the client holds at most one open connection; an operation opens one
\* only when none is open (the first operation, or the first after close())
\* and otherwise reuses the open one; close() closes the open connection and
\* changes nothing on a client never opened or already closed.
C23_ConnectionState ==
    /\ client.openConns = (IF client.session = "open" THEN 1 ELSE 0)
    /\ call.op \in ClientOps
         => /\ client.session = "open"
            /\ call.opens = (IF call.connBefore = "open" THEN 0 ELSE 1)
    /\ call.op = "BridgeClient_close"
         => /\ client.session =
                 (IF call.connBefore = "open" THEN "closed" ELSE call.connBefore)
            /\ call.opens = 0

C23_CloseIsNoOp ==
    (call'.op = "BridgeClient_close" /\ client.session # "open") => client' = client

C23_LazyReusableConnection ==
    []C23_ConnectionState /\ [][C23_CloseIsNoOp]_vars

C23_Witness ==
    /\ call.op = "navigate" /\ call.connBefore = "closed" /\ call.opens = 1
    /\ call.status = "returned" /\ client.opened = 2 /\ client.session = "open"

\* C24: every operation of the client issues exactly one request, whether
\* the request succeeds or fails.
C24_OneRequestPerOperation ==
    call.op \in ClientOps /\ call.outcome # "none" => call.issued = 1

C24_Witness ==
    /\ call.op = "get_page_source" /\ call.outcome = "ClientError"
    /\ call.status = "raised" /\ call.issued = 1
\* C25: close_session never raises, also when the driver's quit or a remote
\* close fails; it returns with both references cleared and with the Session
\* Interface and the raw handle that were active closed; with nothing active
\* it changes no state.
C25_CloseSessionState ==
    call.op = "close_session"
    => /\ call.status # "raised"
       /\ (pc = "idle")
            => /\ call.status = "returned"
               /\ mgr.cur = 0 /\ mgr.curBS = 0
               /\ (call.prev # 0)
                    => /\ sess[call.prev].closed
                       /\ sess[call.prev].closeReqs >= 2
                       /\ sess[call.prev].kind = "bridge" => sess[call.prev].bsClosed

C25_NothingActiveNoOp ==
    (/\ call.op = "close_session" /\ pc \in {"close_browser", "close_raw"}
     /\ mgr.cur = 0 /\ mgr.curBS = 0)
    => UNCHANGED <<config, mgr, registry, sess, nsess, client>>

C25_CloseSessionNeverRaises ==
    []C25_CloseSessionState /\ [][C25_NothingActiveNoOp]_vars

C25_Witness ==
    /\ call.op = "close_session" /\ pc = "idle" /\ call.status = "returned"
    /\ call.prev # 0 /\ sess[call.prev].kind = "chrome"
    /\ call.failed = {call.prev}
    /\ mgr.cur = 0 /\ mgr.curBS = 0

\* C26: close_all first does close_session, then closes every session the
\* adapter tracks, then the client's connection, then clears the adapter
\* reference; it returns with no active session, the registry empty and the
\* connection not open, and the next get_session that takes the bridge path
\* makes a new adapter with an empty registry.
C26_CloseAllState ==
    call.op = "close_all"
    => /\ call.status # "raised"
       /\ (pc \in {"adapter_close", "close_all", "client_close", "idle"})
            => (mgr.cur = 0 /\ mgr.curBS = 0)
       /\ (pc \in {"close_all", "client_close"}) => mgr.adapter
       /\ (pc = "close_all") => registry = call.todo
       /\ (pc = "client_close")
            => (registry = {} /\ call.attempted = call.regStart)
       /\ (pc = "idle")
            => /\ call.status = "returned"
               /\ ~mgr.adapter
               /\ registry = {}
               /\ client.session # "open"
               /\ \A s \in SessionIds : ~Live(s)

C26_NextAdapterIsNew ==
    (pc = "try_bridge" /\ bridge_enabled(config) /\ ~mgr.adapter)
    => /\ mgr'.adapter
       /\ registry' = {}
       /\ client' = NoClient
       /\ call'.adapters = 1

C26_CloseAllOrder ==
    []C26_CloseAllState /\ [][C26_NextAdapterIsNew]_vars

C26_Witness ==
    /\ call.op = "get_session" /\ call.status = "returned"
    /\ call.adapters = 1 /\ call.retval = 2
    /\ sess[1].kind = "bridge" /\ sess[1].bsClosed
    /\ sess[2].kind = "bridge"
    /\ registry = {2}

\* C27: is_bridge_mode() is true exactly when a session is active and that
\* session is a bridge session: false before the first get_session, after
\* close_session and close_all, and while a direct-driver session is active.
C27_IsBridgeMode ==
    /\ is_bridge_mode <=> (mgr.curBS # 0 /\ sess[mgr.curBS].kind = "bridge")
    /\ call.op = "none" => ~is_bridge_mode
    /\ (pc = "idle" /\ call.op \in {"close_session", "close_all"}) => ~is_bridge_mode
    /\ (pc = "idle" /\ call.op = "get_session" /\ call.status = "returned")
         => (is_bridge_mode <=> call.directs = 0)

C27_Witness ==
    /\ pc = "idle" /\ call.op = "get_session" /\ call.status = "returned"
    /\ call.creates = 1 /\ call.directs = 1
    /\ mgr.curBS # 0 /\ ~is_bridge_mode
\* C28: the adapter's create_session, when the client succeeds, returns a
\* new Bridge Session and the registry gains exactly its id; when the client
\* raises BridgeConnectionError or BridgeSessionError the same error leaves
\* the method and the registry is as before.
C28_CreateSessionRegistersOrPropagates ==
    call.op = "create_session"
    => IF call.clientExc = "ok"
       THEN /\ call.status = "returned"
            /\ call.sid \in SessionIds /\ call.sid \notin call.regStart
            /\ sess[call.sid].kind = "bridge"
            /\ registry = call.regStart \cup {call.sid}
       ELSE /\ call.status = "raised"
            /\ call.clientExc \in {"BridgeConnectionError", "BridgeSessionError"}
            /\ call.exc = call.clientExc
            /\ call.sid = 0
            /\ registry = call.regStart

C28_Witness ==
    /\ call.op = "create_session" /\ call.status = "raised"
    /\ call.exc = "BridgeConnectionError" /\ registry = {1}

\* C29: a get_session that takes the bridge path as far as
\* get_or_create_session sends one session-create request, and the Bridge
\* Session it obtains is a new one, not one the registry already held.
C29_NoSessionReuse ==
    call.op = "get_session"
    => /\ call.creates <= 1
       /\ (pc \in {"auth_nav_root", "auth_set_cookies", "auth_nav_feed",
                   "auth_get_url", "auth_failed", "bridge_ok"} \/ call.sid # 0)
            => /\ call.creates = 1
               /\ call.sid # 0
               /\ call.sid \notin call.regStart
               /\ call.sid # call.prev

C29_Witness ==
    /\ call.op = "get_session" /\ call.status = "returned"
    /\ call.creates = 1 /\ call.retval = call.sid /\ call.sid # 0
    /\ call.prev # 0 /\ call.prev \in call.regStart
    /\ sess[call.prev].kind = "bridge"

----------------------------------------------------------------------------
\* C31: over the global manager, get_current_browser_session creates neither
\* a manager nor a session and returns None unless a get_browser_session has
\* succeeded and its session is still the active one; once close_all_sessions
\* has completed it returns None and the global manager is discarded; a
\* get_browser_session made when there is no manager creates one, and a
\* successful one returns a session that was not active before.
C31_CurrentSessionState ==
    /\ (current_browser_session # 0 =>
          \/ /\ call.op = "get_session" /\ call.status = "returned"
             /\ call.retval = current_browser_session
          \/ /\ call.status = "running" /\ pc = "close_browser"
             /\ call.prev = current_browser_session)
    /\ (last.op = "get_current_browser_session" /\ last.sid # 0 =>
          \/ /\ call.op = "get_session" /\ call.status = "returned"
             /\ call.retval = last.sid
          \/ call.prev = last.sid)
    /\ (call.global /\ call.op \in {"close_all", "close_all_sessions"}
          /\ call.status = "returned" =>
          ~mgr.global /\ current_browser_session = 0)
    /\ (call.global /\ call.op = "get_session" => mgr.global)
    /\ (call.global /\ call.op = "get_session" /\ call.status = "returned" =>
          /\ call.retval # 0 /\ call.retval # call.prev
          /\ current_browser_session = call.retval
          /\ ~sess[call.retval].closed)

C31_ReadCreatesNothing ==
    (last' # last /\ last'.op = "get_current_browser_session") =>
        UNCHANGED <<mgr, sess, nsess, registry, client, pc, call>>

C31_ManagerOnDemand ==
    /\ (~mgr.global /\ mgr'.global) =>
          /\ call'.op = "get_session" /\ call'.status = "running"
          /\ call'.managers = 1
          /\ mgr'.cur = 0 /\ mgr'.curBS = 0 /\ ~mgr'.adapter
    /\ (pc = "idle" /\ pc' = "close_browser" /\ call'.op = "get_session") =>
          /\ mgr'.global
          /\ call'.managers = (IF mgr.global THEN 0 ELSE 1)

C31_GlobalManagerLifecycle ==
    /\ []C31_CurrentSessionState
    /\ [][C31_ReadCreatesNothing]_vars
    /\ [][C31_ManagerOnDemand]_vars

\* A second manager, made after close_all_sessions discarded the first, has
\* produced a session and get_current_browser_session has returned it.
C31_Witness ==
    /\ call.global /\ call.op = "get_session" /\ call.status = "returned"
    /\ call.managers = 1 /\ call.retval >= 2
    /\ last.op = "get_current_browser_session" /\ last.sid = call.retval

----------------------------------------------------------------------------
\* C32: the helper is_bridge_session(x) gives the answer of the session's own
\* is_bridge_session(): True only for a bridge-transport session, False for
\* a ChromeSession and for a raw driver.
C32_HelperAgreesWithSession ==
    last.op = "is_bridge_session" =>
        /\ (last.cls # "webdriver.Chrome" =>
              (last.r = "True") = BrowserSession_is_bridge_session(sess[last.sid]))
        /\ (last.r = "True" => last.cls = "BridgeSessionImpl")

----------------------------------------------------------------------------
\* The operations of a complete authenticate_linkedin, in order.
AuthSequence ==
    << [op |-> "navigate", arg |-> "https://www.linkedin.com"],
       [op |-> "set_cookies", arg |-> "li_at"],
       [op |-> "navigate", arg |-> "https://www.linkedin.com/feed/"],
       [op |-> "get_current_url", arg |-> "none"] >>

\* C33: the operations authenticate invokes on the session are a prefix of:
\* navigate to the root, set_cookies with the authentication cookie, navigate
\* to the feed, read the current URL; each happens at most once, and an
\* operation is invoked only after every earlier one has succeeded, so the
\* cookie is never injected before the root navigation succeeded and the URL
\* is never read before the feed navigation succeeded.
C33_AuthenticateOrder ==
    LET ops == call.authOps IN
    /\ Len(ops) <= Len(AuthSequence)
    /\ \A i \in 1..Len(ops) :
         /\ ops[i].op = AuthSequence[i].op
         /\ ops[i].arg = AuthSequence[i].arg
         /\ (i < Len(ops) => ops[i].ok)
    /\ (call.op = "get_session" /\ call.sid # 0 /\ sess[call.sid].cookie # <<>> =>
          Len(ops) >= 2 /\ ops[1].ok /\ ops[2].ok)
    /\ (call.url # <<>> => Len(ops) = 4 /\ ops[3].ok /\ ops[4].ok)
    /\ (call.auth = "True" => Len(ops) = 4 /\ \A i \in 1..4 : ops[i].ok)
    /\ (pc = "auth_set_cookies" => Len(ops) = 1 /\ ops[1].ok)
    /\ (pc = "auth_nav_feed" => Len(ops) = 2 /\ ops[2].ok)
    /\ (pc = "auth_get_url" => Len(ops) = 3 /\ ops[3].ok)

\* An authentication ran through its four operations and succeeded.
C33_Witness ==
    /\ call.op = "get_session" /\ call.status = "returned"
    /\ call.auth = "True" /\ Len(call.authOps) = 4
    /\ sess[call.sid].cookie # <<>>

----------------------------------------------------------------------------
\* C34: a close_session of the Session Manager that found an active session
\* has issued exactly one close to its transport: one remote delete request
\* for a bridge session, one driver quit for a Direct-Driver session.
C34_OneTransportClose ==
    (call.op = "close_session" /\ call.status = "returned" /\ call.prev # 0) =>
        sess[call.prev].closeReqs = 1

----------------------------------------------------------------------------
\* C35: with the bridge enabled and fallback disallowed, get_session never
\* constructs or returns a Direct-Driver session, a failing call fails with
\* BridgeConnectionError or BridgeSessionError, and the RuntimeError of
\* get_session (line 111) is never raised.
C35_NoFallbackNeverDirect ==
    (config.enabled /\ ~config.fallback) =>
        /\ pc # "selenium"
        /\ \A s \in SessionIds : sess[s].kind # "chrome"
        /\ call.op = "get_session" =>
             /\ call.directs = 0
             /\ call.exc # "RuntimeError"
             /\ (call.status = "raised" =>
                   call.exc \in {"BridgeConnectionError", "BridgeSessionError"})
             /\ (call.status = "returned" =>
                   /\ call.retval # 0
                   /\ sess[call.retval].kind = "bridge")

\* After a get_session that returned a bridge session, another one found the
\* bridge unavailable and failed.
C35_Witness ==
    /\ config.enabled /\ ~config.fallback
    /\ call.op = "get_session" /\ call.status = "raised"
    /\ call.avail = "False" /\ call.exc = "BridgeConnectionError"
    /\ call.prev # 0 /\ sess[call.prev].kind = "bridge"

----------------------------------------------------------------------------
\* C36 as stated: whenever the active session of the Session Manager is a
\* bridge session, its authenticated flag is true, whatever token was passed
\* to get_session, the empty string included.
C36_ActiveBridgeIsAuthenticated ==
    (mgr.cur # 0 /\ sess[mgr.cur].kind = "bridge") => sess[mgr.cur].authenticated

\* C36 amended: the active bridge session is authenticated exactly when the
\* token passed to the get_session that made it was not empty; for the empty
\* string no authentication is attempted, no cookie is injected and the flag
\* keeps its initial value, false.
C36_ActiveBridgeAuthenticatedIffToken ==
    /\ (mgr.cur # 0 /\ sess[mgr.cur].kind = "bridge") =>
          sess[mgr.cur].authenticated = (sess[mgr.cur].cookie # <<>>)
    /\ (call.op = "get_session" /\ call.status = "returned"
          /\ sess[call.retval].kind = "bridge") =>
          /\ mgr.cur = call.retval
          /\ sess[call.retval].authenticated = (call.token # <<>>)
          /\ (call.token = <<>> => call.auth = "none" /\ call.authOps = <<>>)
          /\ (call.token # <<>> => call.auth = "True")

\* get_session("") has returned a bridge session that is active and not
\* authenticated.
C36_Witness ==
    /\ call.op = "get_session" /\ call.status = "returned"
    /\ call.token = <<>>
    /\ mgr.cur = call.retval /\ mgr.cur # 0
    /\ sess[mgr.cur].kind = "bridge" /\ ~sess[mgr.cur].authenticated

----------------------------------------------------------------------------
\* C37: while no Session Manager operation is in progress, the manager's
\* Session Interface reference and its raw-handle reference are both set or
\* both cleared; when set they belong to the same session, and
\* get_current_session returns the Session Interface the last successful
\* get_session returned.
C37_ActiveSessionTriple ==
    pc = "idle" =>
        /\ (mgr.curBS = 0) = (mgr.cur = 0)
        /\ mgr.curBS # 0 =>
             /\ mgr.cur = mgr.curBS
             /\ sess[mgr.curBS].hasImpl
             /\ call.op = "get_session" /\ call.status = "returned"
             /\ get_current_session = call.retval
        /\ (call.op = "get_session" /\ call.status = "returned") =>
             get_current_session = call.retval /\ call.retval # 0
        /\ (call.op = "get_session" /\ call.status = "raised") =>
             get_current_session = 0

\* A second successful get_session has replaced the session of the first.
C37_Witness ==
    /\ pc = "idle" /\ call.op = "get_session" /\ call.status = "returned"
    /\ call.prev # 0 /\ call.prev # call.retval
    /\ mgr.curBS = call.retval /\ mgr.cur = call.retval

----------------------------------------------------------------------------
\* C38: once a close_all of the Session Manager has completed, a remote close
\* request has been issued for every bridge session created through the
\* manager's adapter: the active one, those replaced by a later get_session
\* and those whose authentication failed; the loop of the adapter has gone
\* through every id it had registered.
C38_CloseAllReachesEverySession ==
    (call.op = "close_all" /\ call.status = "returned") =>
        /\ \A s \in 1..nsess :
             sess[s].kind = "bridge" => sess[s].closeReqs >= 1
        /\ call.attempted = call.regStart
        /\ call.todo = {}

\* close_all has completed after one get_session whose bridge session was
\* replaced and one whose authentication failed.
C38_Witness ==
    /\ call.op = "close_all" /\ call.status = "returned"
    /\ \E s1 \in call.regStart, s2 \in call.regStart :
         /\ s1 # s2
         /\ sess[s1].authenticated
         /\ ~sess[s2].authenticated /\ sess[s2].hasImpl
    /\ \A s \in call.regStart : sess[s].closeReqs >= 1

----------------------------------------------------------------------------
\* C39: when two get_session calls on one Session Manager have interleaved at
\* their awaits and both have completed, every session either of them created
\* is the active session of the manager or has been closed: none is left
\* open without being referenced as the active session.
C39_NoSessionLeftOpen ==
    (pc = "idle" /\ call.other.pc = "idle"
       /\ call.op = "get_session" /\ call.other.call.op = "get_session") =>
        \A s \in 1..nsess :
            \/ s = mgr.cur /\ s = mgr.curBS
            \/ sess[s].closeReqs >= 1

====
